---------------------------- MODULE Spec2Model ----------------------------
(***************************************************************************)
(* A model of script.js, the client-side script of the EduAttend           *)
(* attendance application: session handling in localStorage, the page-load *)
(* dispatcher of every page, the two login forms, the apiRequest wrapper,  *)
(* the dashboard loaders and the attendance-marking page.                  *)
(*                                                                         *)
(*   Spec       the pages: navigation, DOMContentLoaded, logins, loaders,  *)
(*              marking, logout, with requests in flight                   *)
(*   SpecApi    apiRequest's handling of one response, as a function       *)
(*   SpecStats  loadStudentAttendance and loadDashboardStats applied to    *)
(*              one API outcome, as functions                              *)
(*   SpecAll    Spec and SpecStats side by side                            *)
(*   SpecUrl    getBaseUrl applied to one location and override, as a      *)
(*              function                                                   *)
(*   SpecRace   the marking page with several mark requests in flight and  *)
(*              the marks the backend holds                                *)
(***************************************************************************)
EXTENDS Integers, Sequences, FiniteSets, TLC

(***************************************************************************)
(* Bounds of the model.                                                    *)
(***************************************************************************)
\* requests in flight at once on one page
MaxPending == 2
\* students the backend lists
MaxStudents == 2
\* records of a history handed to the pages of Spec
MaxPageHistory == 1
\* records of a block history (Present.., Absent.., Late..) in SpecStats
MaxTotal == 40
\* Late records of a block history in SpecStats
MaxLate == 1
\* records of a freely ordered history in SpecStats
MaxShort == 3

(***************************************************************************)
(* JavaScript values.                                                      *)
(***************************************************************************)
\* null: an absent storage key, an absent header
Null == "<null>"
\* undefined: an absent property of an object
Undefined == "<undefined>"

Max(a, b) == IF a >= b THEN a ELSE b
Min(a, b) == IF a <= b THEN a ELSE b

(***************************************************************************)
(* IEEE 754 double arithmetic, as far as                                   *)
(*     Math.round((presentCount / totalClasses) * 100)                     *)
(* needs it.  A positive double is a significand of Precision bits (a      *)
(* sequence of 0/1, most significant first, the first one 1) and the       *)
(* number frac of those bits that lie behind the binary point.             *)
(***************************************************************************)
Precision == 53

\* F applied to the value of v: TLC hands an operator its arguments
\* unevaluated, and a bounded variable is the way to evaluate one once
Strict(v, F(_)) == CHOOSE y \in {F(x) : x \in {v}} : TRUE

Zeros(n) == [i \in 1..n |-> 0]

RECURSIVE NatOfBits(_)
NatOfBits(b) ==
    IF b = <<>> THEN 0 ELSE 2 * NatOfBits(SubSeq(b, 1, Len(b) - 1)) + b[Len(b)]

\* bits lo..hi of a + b + carry for two bit sequences of the same length, and
\* the carry out of bit lo; the low half first, for its carry into the high one
RECURSIVE AddRange(_, _, _, _, _)
AddRange(a, b, lo, hi, carry) ==
    Strict(<<a, b, lo, hi, carry>>, LAMBDA v :
        IF v[3] = v[4]
        THEN LET s == v[1][v[3]] + v[2][v[3]] + v[5]
             IN  [bits |-> <<s % 2>>, carry |-> s \div 2]
        ELSE LET mid == (v[3] + v[4]) \div 2
             IN  Strict(AddRange(v[1], v[2], mid + 1, v[4], v[5]), LAMBDA low :
                 Strict(AddRange(v[1], v[2], v[3], mid, low.carry), LAMBDA high :
                     [bits |-> high.bits \o low.bits, carry |-> high.carry])))

AddCarry(a, b) ==
    Strict(AddRange(a, b, 1, Len(a), 0), LAMBDA r : <<r.carry>> \o r.bits)

PadTo(b, n) == Zeros(n - Len(b)) \o b

StripZeros(b) ==
    IF \E i \in 1..Len(b) : b[i] = 1
    THEN LET first == CHOOSE i \in 1..Len(b) :
                          b[i] = 1 /\ \A j \in 1..(i - 1) : b[j] = 0
         IN  SubSeq(b, first, Len(b))
    ELSE <<>>

AddBits(a, b) ==
    Strict(<<a, b>>, LAMBDA v :
        LET n == Max(Len(v[1]), Len(v[2]))
        IN  StripZeros(AddCarry(PadTo(v[1], n), PadTo(v[2], n))))

\* round to nearest, ties to even: bits (the first one 1, more than Precision
\* of them; sticky: nonzero digits were cut behind them) cut to Precision bits;
\* dropped is the number of low bits that went
RoundBits(bits, sticky) ==
    Strict(<<bits, sticky>>, LAMBDA v :
        LET L     == Len(v[1])
            keep  == SubSeq(v[1], 1, Precision)
            rest  == SubSeq(v[1], Precision + 1, L)
            half  == rest # <<>> /\ rest[1] = 1
            below == v[2] \/ \E i \in 2..Len(rest) : rest[i] = 1
            up    == half /\ (below \/ keep[Precision] = 1)
        IN  Strict(IF up THEN AddBits(keep, <<1>>) ELSE keep, LAMBDA sum :
                IF Len(sum) > Precision
                THEN [sig     |-> SubSeq(sum, 1, Precision),
                      dropped |-> L - Precision + 1]
                ELSE [sig |-> sum, dropped |-> L - Precision]))

\* the next n binary digits of r / den (r < den), and the remainder; the
\* digits are produced half by half
RECURSIVE DivDigits(_, _, _)
DivDigits(r, den, n) ==
    Strict(<<r, den, n>>, LAMBDA v :
        IF v[3] = 0 THEN [bits |-> <<>>, rem |-> v[1]]
        ELSE IF v[3] = 1
        THEN LET d == IF 2 * v[1] >= v[2] THEN 1 ELSE 0
             IN  [bits |-> <<d>>, rem |-> 2 * v[1] - d * v[2]]
        ELSE Strict(DivDigits(v[1], v[2], v[3] \div 2), LAMBDA first :
             Strict(DivDigits(first.rem, v[2], v[3] - v[3] \div 2), LAMBDA rest :
                 [bits |-> first.bits \o rest.bits, rem |-> rest.rem])))

RECURSIVE ShiftUntil(_, _, _)
ShiftUntil(num, den, e) ==
    Strict(<<num, den, e>>, LAMBDA v :
        IF v[1] >= v[2] THEN [num |-> v[1], e |-> v[3]]
        ELSE ShiftUntil(2 * v[1], v[2], v[3] + 1))

\* the double nearest to num / den, for 0 < num <= den
DoubleDiv(num, den) ==
    Strict(ShiftUntil(num, den, 0), LAMBDA sh :
        \* sh.num = num * 2^e lies in [den, 2 den): the leading bit is 1
        Strict(DivDigits(sh.num - den, den, Precision), LAMBDA dg :
        Strict(RoundBits(<<1>> \o dg.bits, dg.rem # 0), LAMBDA r :
            [sig |-> r.sig, frac |-> Precision + sh.e - r.dropped])))

\* the double nearest to x * 100 (100 = 64 + 32 + 4)
DoubleTimes100(x) ==
    Strict(x, LAMBDA v :
        LET s    == v.sig
            prod == AddBits(AddBits(s \o Zeros(6), s \o Zeros(5)), s \o Zeros(2))
        IN  Strict(RoundBits(prod, FALSE), LAMBDA r :
                [sig |-> r.sig, frac |-> v.frac - r.dropped]))

\* Math.round of a positive double below 2^31: the nearest integer, a half up
MathRound(x) ==
    Strict(x, LAMBDA v :
        LET whole == Precision - v.frac
        IN  IF whole < 0 THEN 0
            ELSE NatOfBits(SubSeq(v.sig, 1, whole))
                 + (IF whole < Precision THEN v.sig[whole + 1] ELSE 0))

(***************************************************************************)
(* Strings: what the script uses of String.prototype.                      *)
(***************************************************************************)
\* s.startsWith(prefix)
StartsWith(s, prefix) ==
    Len(s) >= Len(prefix) /\ SubSeq(s, 1, Len(prefix)) = prefix

\* s.includes(needle)
Includes(s, needle) ==
    \E i \in 1..(Len(s) - Len(needle) + 1) :
        SubSeq(s, i, i + Len(needle) - 1) = needle

\* s.substring(0, n)
Substring0(s, n) == SubSeq(s, 1, Min(n, Len(s)))

\* s.trim(), for the blanks a body carries
RECURSIVE Trim(_)
Trim(s) ==
    IF s = "" THEN s
    ELSE IF StartsWith(s, " ") THEN Trim(SubSeq(s, 2, Len(s)))
    ELSE IF SubSeq(s, Len(s), Len(s)) = " " THEN Trim(SubSeq(s, 1, Len(s) - 1))
    ELSE s

\* a value in a condition: undefined, null and "" are false
Truthy(v) == v \notin {Undefined, Null, ""}

\* a || b
Or(a, b) == IF Truthy(a) THEN a ELSE b

\* what setItem stores and a template prints: String(v)
ToStr(v) ==
    IF v = Undefined THEN "undefined" ELSE IF v = Null THEN "null" ELSE v

(***************************************************************************)
(* JSON values.  An object carries the properties the script reads (token, *)
(* role, message, error), Undefined where it has none; an array carries    *)
(* its items: students {_id} or attendance records {status, date}.         *)
(***************************************************************************)
Object(token, role, message, error) ==
    [type |-> "object", token |-> token, role |-> role, message |-> message,
     error |-> error, items |-> <<>>]

Array(items) ==
    [type |-> "array", token |-> Undefined, role |-> Undefined,
     message |-> Undefined, error |-> Undefined, items |-> items]

EmptyObject == Object(Undefined, Undefined, Undefined, Undefined)

\* the value of an expression that threw before it was assigned
NoData == [type |-> "none", token |-> Undefined, role |-> Undefined,
           message |-> Undefined, error |-> Undefined, items |-> <<>>]

Roles == {"faculty", "student"}
Tokens == {"tok-a", "tok-b"}
Statuses == {"Present", "Absent", "Late"}
StudentIds == {"s" \o ToString(i) : i \in 1..MaxStudents}

Student(i) == [id |-> "s" \o ToString(i)]
Record(status, date) == [status |-> status, date |-> date]

\* POST /auth/login -> {token, role, ...}; the backend may leave either out
LoginPayloads ==
    {Object(t, r, Undefined, Undefined) :
        t \in Tokens \cup {Undefined, ""}, r \in Roles \cup {Undefined}}

\* what the backend says when it refuses
ErrorPayloads ==
    {Object(Undefined, Undefined, "Invalid credentials", Undefined),
     Object(Undefined, Undefined, Undefined, "Server error"),
     EmptyObject}

\* POST /attendance/mark -> ack
AckPayloads == {Object(Undefined, Undefined, "Attendance marked", Undefined)}

\* GET /users/students -> Student[]
StudentLists == {Array([i \in 1..n |-> Student(i)]) : n \in 0..MaxStudents}

\* histories of at most n records, in every order of statuses
RECURSIVE StatusSeqs(_)
StatusSeqs(n) ==
    IF n = 0 THEN {<<>>}
    ELSE LET shorter == StatusSeqs(n - 1)
         IN  shorter \cup {Append(h, st) : h \in {g \in shorter : Len(g) = n - 1},
                                           st \in Statuses}

Dated(statuses) == [i \in 1..Len(statuses) |-> Record(statuses[i], i)]

\* GET /attendance/all, GET /attendance/my-history -> AttendanceRecord[]
PageHistories == {Array(Dated(h)) : h \in StatusSeqs(MaxPageHistory)}

\* JSON.stringify, property by property; an undefined property is left out
Property(name, v) ==
    IF v = Undefined THEN "" ELSE "\"" \o name \o "\":\"" \o v \o "\","

StringifyItem(item) ==
    IF "id" \in DOMAIN item
    THEN "{\"_id\":\"" \o item.id \o "\"}"
    ELSE "{\"status\":\"" \o item.status \o "\",\"date\":"
         \o ToString(item.date) \o "}"

RECURSIVE StringifyItems(_)
StringifyItems(items) ==
    IF items = <<>> THEN ""
    ELSE StringifyItem(Head(items)) \o "," \o StringifyItems(Tail(items))

JSONstringify(v) ==
    IF v.type = "array" THEN "[" \o StringifyItems(v.items) \o "]"
    ELSE "{" \o Property("token", v.token) \o Property("role", v.role)
         \o Property("message", v.message) \o Property("error", v.error) \o "}"

\* the JSON values the model's texts can spell
JsonValues ==
    LoginPayloads \cup ErrorPayloads \cup AckPayloads \cup StudentLists
    \cup PageHistories

\* JSON.parse(text): the value text spells; SyntaxError when it spells none
IsJson(text) == \E v \in JsonValues : JSONstringify(v) = text
JSONparse(text) == CHOOSE v \in JsonValues : JSONstringify(v) = text

(***************************************************************************)
(* getBaseUrl and the request URL.                                         *)
(***************************************************************************)
\* the manual override a developer may put under eduAttendBackendUrl
OverrideUrl == "https://api.eduattend.example/api/"

\* a faulty getBaseUrl, which forgets the backend's own port (line 15)
getBaseUrlLocalFirst(overrideUrl, loc) ==
    LET hostname == loc.hostname
        isLocal  == \/ hostname = "localhost"
                    \/ hostname = "127.0.0.1"
                    \/ StartsWith(hostname, "192.168.")
                    \/ StartsWith(hostname, "10.")
                    \/ StartsWith(hostname, "172.")
        isFile   == loc.protocol = "file:"
    IN  IF Truthy(overrideUrl) THEN overrideUrl
        ELSE IF isLocal \/ isFile THEN "http://localhost:5000/api"
        ELSE "/api"

getBaseUrl(overrideUrl, loc) ==
    LET hostname == loc.hostname
        isLocal  == \/ hostname = "localhost"
                    \/ hostname = "127.0.0.1"
                    \/ StartsWith(hostname, "192.168.")
                    \/ StartsWith(hostname, "10.")
                    \/ StartsWith(hostname, "172.")
        isFile   == loc.protocol = "file:"
    IN  IF Truthy(overrideUrl) THEN overrideUrl
        ELSE IF loc.port = "5000" THEN "/api"
        ELSE IF isLocal \/ isFile THEN "http://localhost:5000/api"
        ELSE "/api"

Char(s, i) == SubSeq(s, i, i)

\* whether .replace(/([^:]\/)\/+/g, "$1") keeps the character at i: of a run
\* of slashes the first stays, and the second too when the run starts the
\* string or follows a colon
KeepsChar(s, i) ==
    \/ Char(s, i) # "/"
    \/ i = 1
    \/ Char(s, i - 1) # "/"
    \/ LET a == CHOOSE k \in 1..i :
                    /\ \A j \in k..i : Char(s, j) = "/"
                    /\ k = 1 \/ Char(s, k - 1) # "/"
       IN  i = a + 1 /\ (a = 1 \/ Char(s, a - 1) = ":")

RECURSIVE KeptChars(_, _, _)
KeptChars(s, lo, hi) ==
    Strict(<<s, lo, hi>>, LAMBDA v :
        IF v[2] > v[3] THEN ""
        ELSE IF v[2] = v[3]
        THEN IF KeepsChar(v[1], v[2]) THEN Char(v[1], v[2]) ELSE ""
        ELSE LET mid == (v[2] + v[3]) \div 2
             IN  KeptChars(v[1], v[2], mid) \o KeptChars(v[1], mid + 1, v[3]))

CollapseSlashes(s) == KeptChars(s, 1, Len(s))

\* `${API_URL}${cleanEndpoint}`.replace(...)
RequestUrl(apiUrl, endpoint) ==
    LET cleanEndpoint == IF StartsWith(endpoint, "/") THEN endpoint
                         ELSE "/" \o endpoint
    IN  CollapseSlashes(apiUrl \o cleanEndpoint)

(***************************************************************************)
(* What fetch settles with: a rejection (rejected is the error's message)  *)
(* or a response with its status, the three headers apiRequest reads and   *)
(* its body text.                                                          *)
(***************************************************************************)
NotRejected == "<none>"

StatusText(status) ==
    CASE status = 200 -> "OK"
      [] status = 404 -> "Not Found"
      [] OTHER        -> "Internal Server Error"

ResponsesOf(statuses, contentTypes, backendHeaders, serverHeaders, texts) ==
    [rejected : {NotRejected}, status : statuses, contentType : contentTypes,
     backendHeader : backendHeaders, serverHeader : serverHeaders, text : texts]

Rejection(message) ==
    [rejected |-> message, status |-> 0, contentType |-> Null,
     backendHeader |-> Null, serverHeader |-> Null, text |-> ""]

\* Chrome's and Firefox's messages of a failed fetch
Rejections ==
    {Rejection("Failed to fetch"),
     Rejection("NetworkError when attempting to fetch resource.")}

HtmlTexts ==
    {"<!DOCTYPE html><html><title>404</title></html>",
     " <html><body>Bad Gateway</body></html>"}

PlainTexts == {"", "  ", "Internal Server Error"}

JsonTexts(payloads) == {JSONstringify(v) : v \in payloads}

\* the payloads an endpoint answers with
Payloads(endpoint) ==
    CASE endpoint = "/auth/login"      -> LoginPayloads
      [] endpoint = "/users/students"  -> StudentLists
      [] endpoint = "/attendance/mark" -> AckPayloads
      [] OTHER                         -> PageHistories

Endpoints ==
    {"/auth/login", "/users/students", "/attendance/all", "/attendance/mark",
     "/attendance/my-history"}

\* every response SpecApi hands to apiRequest
AllResponses ==
    Rejections \cup
    ResponsesOf({200, 404, 500},
                {Null, "application/json; charset=utf-8", "text/html"},
                {Null, "", "EduAttend-Node", "Express"},
                {Null, "nginx"},
                HtmlTexts \cup PlainTexts \cup JsonTexts(JsonValues))

\* the responses the pages of Spec meet at an endpoint: no connection, the
\* backend's answers and its refusals, and a static host's error page and
\* empty page
PageResponses(endpoint) ==
    {Rejection("Failed to fetch")}
    \cup ResponsesOf({200}, {"application/json; charset=utf-8"},
                     {"EduAttend-Node"}, {Null},
                     JsonTexts(Payloads(endpoint)))
    \cup ResponsesOf({404}, {"application/json; charset=utf-8"},
                     {"EduAttend-Node"}, {Null}, JsonTexts(ErrorPayloads))
    \cup ResponsesOf({404}, {"text/html"}, {Null}, {"nginx"},
                     {"<!DOCTYPE html><html><title>404</title></html>"})
    \cup ResponsesOf({200}, {"text/html"}, {Null}, {"nginx"}, {""})

(***************************************************************************)
(* apiRequest, from the settled fetch on: what it returns or throws.       *)
(***************************************************************************)
Return(data) == [type |-> "return", data |-> data, message |-> ""]
Throw(message) == [type |-> "throw", data |-> NoData, message |-> message]

IsHtmlShaped(text) ==
    StartsWith(Trim(text), "<!DOCTYPE html>") \/ StartsWith(Trim(text), "<html")

MsgAlive ==
    "The backend is alive but returned an HTML error page. Check backend logs for route matching issues."
MsgIntercepted(serverHeader) ==
    "The request was intercepted by a different server ("
    \o Or(serverHeader, "Unknown")
    \o "). This usually means your deployment's /api route is not correctly pointing to the Node.js backend."
MsgInvalidJson(text) ==
    "Invalid JSON from server: " \o Substring0(text, 30) \o "..."
MsgNotReached(serverHeader) ==
    "CRITICAL: The backend server was NOT reached. Request was handled by: "
    \o Or(serverHeader, "a static host")
    \o ". Ensure your deployment configuration routes /api to the Node server."
MsgHtmlFromBackend(url) ==
    "The backend responded with an HTML page for " \o url
    \o ". This implies a 404 or a server-side redirect occurred."
MsgStatus(status) ==
    "Error " \o ToString(status) \o ": " \o StatusText(status)
MsgNoConnection(url) == "Could not connect to the backend server at " \o url

\* lines 53-70: the body of a response that says it is JSON
ParseJsonBody(resp) ==
    IF Trim(resp.text) = ""
    THEN Return(Object(Undefined, Undefined, "Success (No data returned)",
                       Undefined))
    ELSE IF IsJson(resp.text) THEN Return(JSONparse(resp.text))
    ELSE IF IsHtmlShaped(resp.text)
    THEN Throw(IF resp.backendHeader = "EduAttend-Node" THEN MsgAlive
               ELSE MsgIntercepted(resp.serverHeader))
    ELSE Throw(MsgInvalidJson(resp.text))

\* lines 71-89: the body of any other response
WrapTextBody(resp, url) ==
    LET data == IF resp.text # ""
                THEN Object(Undefined, Undefined, resp.text, Undefined)
                ELSE EmptyObject
    IN  IF IsHtmlShaped(resp.text)
        THEN Return([data EXCEPT !.message =
                        IF ~Truthy(resp.backendHeader)
                        THEN MsgNotReached(resp.serverHeader)
                        ELSE MsgHtmlFromBackend(url)])
        ELSE Return(data)

\* lines 91-94: an error status throws the body's message
CheckStatus(resp, parsed) ==
    IF parsed.type = "throw" THEN parsed
    ELSE IF resp.status \notin 200..299
    THEN Throw(Or(parsed.data.message,
                  Or(parsed.data.error, MsgStatus(resp.status))))
    ELSE parsed

\* lines 95-101: the catch around it all
Catch(outcome, url) ==
    IF outcome.type = "throw" /\ outcome.message = "Failed to fetch"
    THEN Throw(MsgNoConnection(url))
    ELSE outcome

apiRequestSettle(resp, url) ==
    IF resp.rejected # NotRejected THEN Catch(Throw(resp.rejected), url)
    ELSE LET isJson == /\ Truthy(resp.contentType)
                       /\ Includes(resp.contentType, "application/json")
             parsed == IF isJson THEN ParseJsonBody(resp)
                       ELSE WrapTextBody(resp, url)
         IN  Catch(CheckStatus(resp, parsed), url)

(***************************************************************************)
(* The state.                                                              *)
(***************************************************************************)
VARIABLES
    location,     \* window.location: hostname, port, protocol, pathname
    loaded,       \* whether DOMContentLoaded has run on the page
    storage,      \* localStorage: the script's three keys
    pending,      \* the apiRequest calls awaiting their fetch, oldest first
    dom,          \* what the script writes of the page
    alerts,       \* the alerts the last step showed, in order
    fetches,      \* the fetches the last step issued, in order
    ev,           \* the last step: the handler that ran and what it met
    apiResp,      \* SpecApi: the settled fetch handed to apiRequest
    apiResult,    \* SpecApi: what apiRequest made of it
    unitOutcome,  \* SpecStats: what the loader's apiRequest came back with
    baseUrl,      \* SpecUrl: what getBaseUrl returned
    recorded      \* SpecRace: the status the backend recorded last, by student

vars == <<location, loaded, storage, pending, dom, alerts, fetches, ev,
          apiResp, apiResult, unitOutcome, baseUrl, recorded>>

unitVars == <<apiResp, apiResult, unitOutcome, baseUrl, recorded>>

\* getBaseUrl has not run
NoUrl == "<none>"

\* the backend has recorded no mark
NoRecords == [s \in StudentIds |-> Null]

Pages ==
    {"index.html", "faculty-login.html", "student-login.html",
     "dashboard.html", "student-dashboard.html", "attendance.html"}

\* where the pages of Spec are served from: a local dev server
PageOrigin == [hostname |-> "localhost", port |-> "5500", protocol |-> "http:"]

At(origin, page) ==
    [hostname |-> origin.hostname, port |-> origin.port,
     protocol |-> origin.protocol, pathname |-> "/" \o page]

OnPage(page) == location.pathname = "/" \o page

EmptyStorage ==
    [eduAttendToken |-> Null, eduAttendUser |-> Null,
     eduAttendBackendUrl |-> Null]

\* the page as served, before the script touches it
InitialDom ==
    [loginDisabled |-> FALSE,
     statStudents  |-> "static",
     tableBody     |-> [state |-> "static", rows |-> <<>>],
     markingList   |-> [state |-> "static", rows |-> <<>>],
     active        |-> [s \in StudentIds |-> {}],
     studentView   |-> [state |-> "static", total |-> 0, present |-> 0,
                        missed |-> 0, percentage |-> 0,
                        log |-> [state |-> "static", items |-> <<>>]]]

NoEvent ==
    [op |-> "init", site |-> "", outcome |-> "none", data |-> NoData,
     path |-> "", snap |-> EmptyStorage, calls |-> 0]

Event(op, site, outcome, path, snap, calls) ==
    [op |-> op, site |-> site, outcome |-> outcome.type, data |-> outcome.data,
     path |-> path, snap |-> snap, calls |-> calls]

NoOutcome == [type |-> "none", data |-> NoData, message |-> ""]

\* the override a developer may have stored before the pages are used
BackendUrls == {Null, OverrideUrl}

ApiUrls ==
    {getBaseUrl(override, At(PageOrigin, "index.html")) :
        override \in BackendUrls}

\* line 41, for every API_URL and endpoint of the pages
Urls ==
    [apiUrl \in ApiUrls |->
        [endpoint \in Endpoints |-> RequestUrl(apiUrl, endpoint)]]

\* what apiRequest hands its caller, over the responses its fetch can settle
\* with
Settlements ==
    [endpoint \in Endpoints |->
        [url \in {Urls[apiUrl][endpoint] : apiUrl \in ApiUrls} |->
            {apiRequestSettle(resp, url) : resp \in PageResponses(endpoint)}]]

(***************************************************************************)
(* apiRequest, up to its await of fetch.                                   *)
(***************************************************************************)
API_URL == getBaseUrl(storage.eduAttendBackendUrl, location)

\* a faulty AuthorizationHeader, which does not ask whether there is a token
AlwaysBearer(token) == "Bearer " \o ToStr(token)

\* lines 30-38: the Authorization header, from the token stored now
AuthorizationHeader(token) ==
    IF Truthy(token) THEN "Bearer " \o token ELSE Null

\* a faulty apiRequestFetches, which retries once
FetchTwice(call) == <<call, call>>

\* the fetches one apiRequest call issues (line 44)
apiRequestFetches(call) == <<call>>

\* a call of apiRequest by the handler `site`; student and status are
\* markAttendance's arguments; served tells whether the backend has handled
\* the request (SpecRace)
ApiCall(site, endpoint, method, student, status) ==
    [site          |-> site,
     endpoint      |-> endpoint,
     method        |-> method,
     url           |-> Urls[API_URL][endpoint],
     authorization |-> AuthorizationHeader(storage.eduAttendToken),
     snap          |-> storage,
     student       |-> student,
     status        |-> status,
     served        |-> FALSE]

OutcomesOf(call) == Settlements[call.endpoint][call.url]

RECURSIVE FetchesOf(_)
FetchesOf(calls) ==
    IF calls = <<>> THEN <<>>
    ELSE apiRequestFetches(Head(calls)) \o FetchesOf(Tail(calls))

Without(seq, i) == SubSeq(seq, 1, i - 1) \o SubSeq(seq, i + 1, Len(seq))

(***************************************************************************)
(* Navigation: window.location.href = page unloads the document, and the   *)
(* requests it awaited with it.                                            *)
(***************************************************************************)
NavigateTo(page) ==
    /\ location' = [location EXCEPT !.pathname = "/" \o page]
    /\ loaded' = FALSE
    /\ pending' = <<>>
    /\ dom' = InitialDom

\* the user opens a page of the site
Open(page) ==
    /\ loaded
    /\ NavigateTo(page)
    /\ UNCHANGED storage
    /\ alerts' = <<>>
    /\ fetches' = <<>>
    /\ ev' = Event("open", "", NoOutcome, location.pathname, storage, 0)
    /\ UNCHANGED unitVars

(***************************************************************************)
(* DOMContentLoaded (lines 104-260).                                       *)
(***************************************************************************)
NullValue == [NoData EXCEPT !.type = "null"]

\* JSON.parse(localStorage.getItem('eduAttendUser'))
StoredUser == 
    IF storage.eduAttendUser = Null THEN NullValue
    ELSE JSONparse(storage.eduAttendUser)

\* lines 185-197: the faculty dashboard's block
DashboardBlock(pathname, user) ==
    IF ~Includes(pathname, "dashboard.html")
    THEN [redirect |-> Null, calls |-> <<>>]
    ELSE IF user.type = "null" \/ user.role # "faculty"
    THEN [redirect |-> "faculty-login.html", calls |-> <<>>]
    ELSE [redirect |-> Null,
          calls    |-> <<ApiCall("loadDashboardStats", "/users/students",
                                 "GET", Null, Null)>>]

\* lines 200-221: the student dashboard's block
StudentDashboardBlock(pathname, user) ==
    IF ~Includes(pathname, "student-dashboard.html")
    THEN [redirect |-> Null, calls |-> <<>>]
    ELSE IF user.type = "null" \/ user.role # "student"
    THEN [redirect |-> "student-login.html", calls |-> <<>>]
    ELSE [redirect |-> Null,
          calls    |-> <<ApiCall("loadStudentAttendance",
                                 "/attendance/my-history", "GET", Null, Null)>>]

\* lines 224-225: the marking page's block
AttendanceBlock(pathname) ==
    IF ~Includes(pathname, "attendance.html")
    THEN [redirect |-> Null, calls |-> <<>>]
    ELSE [redirect |-> Null,
          calls    |-> <<ApiCall("loadStudentsForMarking", "/users/students",
                                 "GET", Null, Null)>>]

\* the blocks in the handler's order; a redirecting block returns from it
Dispatch(pathname, user) ==
    LET b1 == DashboardBlock(pathname, user)
        b2 == StudentDashboardBlock(pathname, user)
        b3 == AttendanceBlock(pathname)
    IN  IF b1.redirect # Null THEN b1
        ELSE IF b2.redirect # Null
        THEN [redirect |-> b2.redirect, calls |-> b1.calls]
        ELSE [redirect |-> Null, calls |-> b1.calls \o b2.calls \o b3.calls]

DOMContentLoaded ==
    /\ ~loaded
    /\ LET d == Dispatch(location.pathname, StoredUser)
       IN  /\ IF d.redirect # Null
              THEN NavigateTo(d.redirect)
              ELSE /\ UNCHANGED <<location, dom>>
                   /\ loaded' = TRUE
                   /\ pending' = d.calls
           /\ fetches' = FetchesOf(d.calls)
           /\ ev' = Event("DOMContentLoaded", "", NoOutcome, location.pathname,
                          storage, Len(d.calls))
    /\ alerts' = <<>>
    /\ UNCHANGED storage
    /\ UNCHANGED unitVars

(***************************************************************************)
(* The login forms (lines 118-182).                                        *)
(***************************************************************************)
LoginSite(role) == role \o "Login"
LoginPage(role) == role \o "-login.html"

\* where a login lands (lines 142, 175)
DashboardOf(role) ==
    IF role = "faculty" THEN "dashboard.html" ELSE "student-dashboard.html"

\* lines 137, 170
PortalOnlyMessage(role) ==
    IF role = "faculty" THEN "This portal is for faculty only."
    ELSE "This portal is for students only."

\* the submit handler up to its await
SubmitLogin(role) ==
    /\ loaded
    /\ OnPage(LoginPage(role))
    /\ ~dom.loginDisabled
    /\ LET call == ApiCall(LoginSite(role), "/auth/login", "POST", Null, Null)
       IN  /\ pending' = Append(pending, call)
           /\ fetches' = apiRequestFetches(call)
           /\ ev' = Event("submit", call.site, NoOutcome, location.pathname,
                          storage, 1)
    /\ dom' = [dom EXCEPT !.loginDisabled = TRUE]
    /\ alerts' = <<>>
    /\ UNCHANGED <<location, loaded, storage>>
    /\ UNCHANGED unitVars

\* a faulty RolePasses, which lets every role in
AnyRolePasses(data, role) == TRUE

\* lines 136, 169: the role check on what apiRequest returned
RolePasses(data, role) == data.role = role

\* a faulty StoreSession, which forgets line 141
StoreTokenOnly(store, data) ==
    [store EXCEPT !.eduAttendToken = ToStr(data.token)]

\* lines 140-141, 173-174
StoreSession(store, data) ==
    [store EXCEPT !.eduAttendToken = ToStr(data.token),
                  !.eduAttendUser  = JSONstringify(data)]

\* the submit handler from its await on
LoginSettles(i, outcome) ==
    LET call == pending[i]
        role == CHOOSE r \in Roles : LoginSite(r) = call.site
    IN  /\ IF outcome.type = "return" /\ RolePasses(outcome.data, role)
           THEN /\ storage' = StoreSession(storage, outcome.data)
                /\ NavigateTo(DashboardOf(role))
                /\ alerts' = <<>>
           ELSE /\ UNCHANGED storage
                /\ alerts' = <<IF outcome.type = "throw" THEN outcome.message
                               ELSE PortalOnlyMessage(role)>>
                /\ dom' = [dom EXCEPT !.loginDisabled = FALSE]
                /\ pending' = Without(pending, i)
                /\ UNCHANGED <<location, loaded>>
        /\ fetches' = <<>>
        /\ ev' = Event("settled", call.site, outcome, location.pathname,
                       call.snap, 0)
        /\ UNCHANGED unitVars

LoginSettled ==
    \E i \in 1..Len(pending) :
        /\ pending[i].endpoint = "/auth/login"
        /\ \E outcome \in OutcomesOf(pending[i]) : LoginSettles(i, outcome)

(***************************************************************************)
(* loadDashboardStats (lines 263-296).                                     *)
(***************************************************************************)
RecentRows == 5

\* a faulty Slice, one record too long
SliceOneMore(items, n) == SubSeq(items, 1, Min(n + 1, Len(items)))

\* history.slice(0, n)
Slice(items, n) == SubSeq(items, 1, Min(n, Len(items)))

\* students.length as stats[0].textContent shows it
LengthShown(data) ==
    IF data.type = "array" THEN ToString(Len(data.items)) ELSE ""

\* lines 271-292: the table body; .slice of what is no array throws, after
\* the body was emptied
RenderTable(data) ==
    IF data.type # "array" THEN [state |-> "rows", rows |-> <<>>]
    ELSE IF Len(data.items) = 0 THEN [state |-> "placeholder", rows |-> <<>>]
    ELSE [state |-> "rows", rows |-> Slice(data.items, RecentRows)]

\* from the second await on
AfterStatsHistory(d, outcome) ==
    IF outcome.type = "throw" THEN d
    ELSE [d EXCEPT !.tableBody = RenderTable(outcome.data)]

\* from the first await to the second
StatsStudentsSettles(i, outcome) ==
    LET call    == pending[i]
        next    == ApiCall("loadDashboardStats", "/attendance/all", "GET",
                           Null, Null)
        calls   == IF outcome.type = "return" THEN <<next>> ELSE <<>>
    IN  /\ dom' = IF outcome.type = "return"
                  THEN [dom EXCEPT !.statStudents = LengthShown(outcome.data)]
                  ELSE dom
        /\ pending' = Without(pending, i) \o calls
        /\ fetches' = FetchesOf(calls)
        /\ alerts' = <<>>
        /\ ev' = Event("settled", call.site, outcome, location.pathname,
                       call.snap, Len(calls))
        /\ UNCHANGED <<location, loaded, storage>>
        /\ UNCHANGED unitVars

StatsStudentsSettled ==
    \E i \in 1..Len(pending) :
        /\ pending[i].site = "loadDashboardStats"
        /\ pending[i].endpoint = "/users/students"
        /\ \E outcome \in OutcomesOf(pending[i]) :
               StatsStudentsSettles(i, outcome)

Settles(i, outcome, newDom, newAlerts) ==
    /\ dom' = newDom
    /\ pending' = Without(pending, i)
    /\ fetches' = <<>>
    /\ alerts' = newAlerts
    /\ ev' = Event("settled", pending[i].site, outcome, location.pathname,
                   pending[i].snap, 0)
    /\ UNCHANGED <<location, loaded, storage>>
    /\ UNCHANGED unitVars

StatsHistorySettled ==
    \E i \in 1..Len(pending) :
        /\ pending[i].site = "loadDashboardStats"
        /\ pending[i].endpoint = "/attendance/all"
        /\ \E outcome \in OutcomesOf(pending[i]) :
               Settles(i, outcome, AfterStatsHistory(dom, outcome), <<>>)

(***************************************************************************)
(* The marking page (lines 223-259, 299-356).                              *)
(***************************************************************************)
\* lines 303-334: the list; .forEach of what is no array throws
RenderMarkingList(outcome) ==
    IF outcome.type = "throw" \/ outcome.data.type # "array"
    THEN [state |-> "error", rows |-> <<>>]
    ELSE IF Len(outcome.data.items) = 0 THEN [state |-> "empty", rows |-> <<>>]
    ELSE [state |-> "rows",
          rows  |-> [k \in 1..Len(outcome.data.items) |->
                        outcome.data.items[k].id]]

MarkingStudentsSettled ==
    \E i \in 1..Len(pending) :
        /\ pending[i].site = "loadStudentsForMarking"
        /\ \E outcome \in OutcomesOf(pending[i]) :
               Settles(i, outcome,
                       [dom EXCEPT !.markingList = RenderMarkingList(outcome),
                                   !.active = InitialDom.active],
                       <<>>)

RowsShown == {dom.markingList.rows[k] : k \in 1..Len(dom.markingList.rows)}

markAttendanceCall(student, status) ==
    ApiCall("markAttendance", "/attendance/mark", "POST", student, status)

\* a click on a row's button: markAttendance up to its await
ClickMark(student, status) ==
    /\ loaded
    /\ student \in RowsShown
    /\ Len(pending) < MaxPending
    /\ LET call == markAttendanceCall(student, status)
       IN  /\ pending' = Append(pending, call)
           /\ fetches' = apiRequestFetches(call)
           /\ ev' = Event("click", call.site, NoOutcome, location.pathname,
                          storage, 1)
    /\ alerts' = <<>>
    /\ UNCHANGED <<location, loaded, storage, dom>>
    /\ UNCHANGED unitVars

\* a faulty ActivateButton, which forgets line 350
AddActive(active, student, status) ==
    [active EXCEPT ![student] = @ \cup {status}]

\* lines 349-351: the row's buttons after an acknowledged mark
ActivateButton(active, student, status) ==
    [active EXCEPT ![student] = {status}]

\* a faulty FailedToMark, which only logs
SilentFailure(message) == <<>>

\* lines 352-354: the catch of markAttendance
FailedToMark(message) == <<"Failed to mark attendance: " \o message>>

\* markAttendance from its await on
MarkSettles(i, outcome) ==
    LET call == pending[i]
    IN  IF outcome.type = "return"
        THEN Settles(i, outcome,
                     [dom EXCEPT !.active =
                         ActivateButton(dom.active, call.student,
                                        call.status)],
                     <<>>)
        ELSE Settles(i, outcome, dom, FailedToMark(outcome.message))

MarkSettled ==
    \E i \in 1..Len(pending) :
        /\ pending[i].site = "markAttendance"
        /\ \E outcome \in OutcomesOf(pending[i]) : MarkSettles(i, outcome)

\* lines 249-257: every Present button that is not active is clicked, then
\* the alert
MarkAllPresent ==
    /\ loaded
    /\ OnPage("attendance.html")
    /\ LET rows    == dom.markingList.rows
           toClick == SelectSeq(rows, LAMBDA s : "Present" \notin dom.active[s])
           calls   == [k \in 1..Len(toClick) |->
                          markAttendanceCall(toClick[k], "Present")]
       IN  /\ Len(pending) + Len(calls) <= MaxPending
           /\ pending' = pending \o calls
           /\ fetches' = FetchesOf(calls)
           /\ ev' = Event("markAll", "markAttendance", NoOutcome,
                          location.pathname, storage, Len(calls))
    /\ alerts' = <<"All students marked as present!">>
    /\ UNCHANGED <<location, loaded, storage, dom>>
    /\ UNCHANGED unitVars

\* lines 241-244
SaveSession ==
    /\ loaded
    /\ OnPage("attendance.html")
    /\ NavigateTo("dashboard.html")
    /\ alerts' = <<"Attendance session saved successfully!">>
    /\ fetches' = <<>>
    /\ ev' = Event("save", "", NoOutcome, location.pathname, storage, 0)
    /\ UNCHANGED storage
    /\ UNCHANGED unitVars

(***************************************************************************)
(* logout (lines 404-408).                                                 *)
(***************************************************************************)
\* a faulty RemoveSession, which forgets line 406
RemoveTokenOnly(store) == [store EXCEPT !.eduAttendToken = Null]

RemoveSession(store) ==
    [store EXCEPT !.eduAttendToken = Null, !.eduAttendUser = Null]

logout ==
    /\ loaded
    /\ storage' = RemoveSession(storage)
    /\ NavigateTo("index.html")
    /\ alerts' = <<>>
    /\ fetches' = <<>>
    /\ ev' = Event("logout", "", NoOutcome, location.pathname, storage, 0)
    /\ UNCHANGED unitVars

(***************************************************************************)
(* loadStudentAttendance (lines 359-401).                                  *)
(***************************************************************************)
LogItems == 10

\* history.filter(a => a.status === 'Present').length
PresentCount(items) ==
    Cardinality({k \in 1..Len(items) : items[k].status = "Present"})

\* line 365, in the doubles JavaScript computes it in
Percentage(presentCount, totalClasses) ==
    IF totalClasses > 0
    THEN IF presentCount = 0 THEN 0
         ELSE MathRound(DoubleTimes100(DoubleDiv(presentCount, totalClasses)))
    ELSE 0

\* lines 383-396
RenderLog(items) ==
    IF Len(items) = 0 THEN [state |-> "placeholder", items |-> <<>>]
    ELSE [state |-> "items", items |-> Slice(items, LogItems)]

\* lines 362-397; .filter of what is no array throws before anything is shown
StudentView(items) ==
    LET totalClasses == Len(items)
        presentCount == PresentCount(items)
    IN  [state      |-> "loaded",
         total      |-> totalClasses,
         present    |-> presentCount,
         missed     |-> totalClasses - presentCount,
         percentage |-> Percentage(presentCount, totalClasses),
         log        |-> RenderLog(items)]

AfterMyHistory(d, outcome) ==
    IF outcome.type = "throw" \/ outcome.data.type # "array" THEN d
    ELSE [d EXCEPT !.studentView = StudentView(outcome.data.items)]

(***************************************************************************)
(* Spec: the pages.                                                        *)
(***************************************************************************)
Init ==
    /\ location = At(PageOrigin, "index.html")
    /\ loaded = FALSE
    /\ storage \in {EmptyStorage,
                    [EmptyStorage EXCEPT !.eduAttendBackendUrl = OverrideUrl]}
    /\ pending = <<>>
    /\ dom = InitialDom
    /\ alerts = <<>>
    /\ fetches = <<>>
    /\ ev = NoEvent
    /\ apiResp = Rejection("")
    /\ apiResult = NoOutcome
    /\ unitOutcome = NoOutcome
    /\ baseUrl = NoUrl
    /\ recorded = NoRecords

Next ==
    \/ \E page \in Pages : Open(page)
    \/ DOMContentLoaded
    \/ \E role \in Roles : SubmitLogin(role)
    \/ LoginSettled
    \/ StatsStudentsSettled
    \/ StatsHistorySettled
    \/ MarkingStudentsSettled
    \/ \E student \in StudentIds, status \in Statuses : ClickMark(student, status)
    \/ MarkSettled
    \/ MarkAllPresent
    \/ SaveSession
    \/ logout

Spec == Init /\ [][Next]_vars

(***************************************************************************)
(* SpecApi: apiRequest applied to one settled fetch.                       *)
(***************************************************************************)
ApiEndpoint == "/attendance/all"

InitApi ==
    /\ location = At(PageOrigin, "dashboard.html")
    /\ loaded = TRUE
    /\ storage = EmptyStorage
    /\ pending = <<>>
    /\ dom = InitialDom
    /\ alerts = <<>>
    /\ fetches = <<>>
    /\ ev = [NoEvent EXCEPT !.op = "api"]
    /\ apiResp \in AllResponses
    /\ apiResult = NoOutcome
    /\ unitOutcome = NoOutcome
    /\ baseUrl = NoUrl
    /\ recorded = NoRecords

apiRequest ==
    /\ ev.op = "api"
    /\ apiResult' = apiRequestSettle(apiResp, RequestUrl(API_URL, ApiEndpoint))
    /\ ev' = [ev EXCEPT !.op = "apiSettled"]
    /\ UNCHANGED <<location, loaded, storage, pending, dom, alerts, fetches,
                   apiResp, unitOutcome, baseUrl, recorded>>

SpecApi == InitApi /\ [][apiRequest]_vars

(***************************************************************************)
(* SpecStats: the two history loaders applied to one outcome of their      *)
(* apiRequest call.                                                        *)
(***************************************************************************)
\* p Present records, then a Absent ones, then l Late ones
Block(p, a, l) ==
    [k \in 1..(p + a + l) |->
        IF k <= p THEN "Present" ELSE IF k <= p + a THEN "Absent" ELSE "Late"]

StatsHistories ==
    {Dated(Block(p, a, l)) :
        <<p, a, l>> \in {t \in (0..MaxTotal) \X (0..MaxTotal) \X (0..MaxLate) :
                            t[1] + t[2] + t[3] <= MaxTotal}}
    \cup {Dated(h) : h \in StatusSeqs(MaxShort)}

UnitOutcomes ==
    {Throw(MsgNoConnection(RequestUrl("/api", "/attendance/my-history"))),
     Throw("Invalid credentials"),
     Return(Object(Undefined, Undefined, "Success (No data returned)",
                   Undefined))}
    \cup {Return(Array(h)) : h \in StatsHistories}

InitStats ==
    /\ location = At(PageOrigin, "student-dashboard.html")
    /\ loaded = TRUE
    /\ storage = EmptyStorage
    /\ pending = <<>>
    /\ dom = InitialDom
    /\ alerts = <<>>
    /\ fetches = <<>>
    /\ ev = [NoEvent EXCEPT !.op = "unit"]
    /\ apiResp = Rejection("")
    /\ apiResult = NoOutcome
    /\ unitOutcome \in UnitOutcomes
    /\ baseUrl = NoUrl
    /\ recorded = NoRecords

UnitSettles(site, newDom) ==
    /\ ev.op = "unit"
    /\ dom' = newDom
    /\ alerts' = <<>>
    /\ fetches' = <<>>
    /\ ev' = Event("settled", site, unitOutcome, location.pathname, storage, 0)
    /\ UNCHANGED <<location, loaded, storage, pending, apiResp, apiResult,
                   unitOutcome, baseUrl, recorded>>

\* loadStudentAttendance from its await on
loadStudentAttendance ==
    UnitSettles("loadStudentAttendance", AfterMyHistory(dom, unitOutcome))

\* loadDashboardStats from its second await on
loadDashboardStats ==
    UnitSettles("loadDashboardStats", AfterStatsHistory(dom, unitOutcome))

StatsNext ==
    \/ loadStudentAttendance
    \/ loadDashboardStats

SpecStats == InitStats /\ [][StatsNext]_vars

(***************************************************************************)
(* SpecUrl: getBaseUrl as the script runs it when it is loaded (line 25),  *)
(* over what the browser can hold then.                                    *)
(***************************************************************************)
Hostnames ==
    {"localhost", "127.0.0.1", "192.168.1.20", "10.0.0.7", "172.16.4.2",
     "100.64.0.1", "eduattend.example", ""}

Ports == {"", "5000", "5500", "3000"}

Protocols == {"http:", "https:", "file:"}

\* getItem('eduAttendBackendUrl'): absent, empty, or a URL
Overrides == {Null, "", OverrideUrl}

InitUrl ==
    /\ location \in [hostname : Hostnames, port : Ports, protocol : Protocols,
                     pathname : {"/index.html"}]
    /\ loaded = FALSE
    /\ storage \in {[EmptyStorage EXCEPT !.eduAttendBackendUrl = o] :
                        o \in Overrides}
    /\ pending = <<>>
    /\ dom = InitialDom
    /\ alerts = <<>>
    /\ fetches = <<>>
    /\ ev = [NoEvent EXCEPT !.op = "url"]
    /\ apiResp = Rejection("")
    /\ apiResult = NoOutcome
    /\ unitOutcome = NoOutcome
    /\ baseUrl = NoUrl
    /\ recorded = NoRecords

\* const API_URL = getBaseUrl()
ScriptLoads ==
    /\ ev.op = "url"
    /\ baseUrl = NoUrl
    /\ baseUrl' = getBaseUrl(storage.eduAttendBackendUrl, location)
    /\ UNCHANGED <<location, loaded, storage, pending, dom, alerts, fetches,
                   ev, apiResp, apiResult, unitOutcome, recorded>>

SpecUrl == InitUrl /\ [][ScriptLoads]_vars

(***************************************************************************)
(* SpecRace: the marking page of a faculty session with its rows shown,    *)
(* and the backend behind it.  The backend handles a mark request, and     *)
(* records its status, at some moment between the fetch and the response;  *)
(* requests and responses travel independently of one another.             *)
(***************************************************************************)
FacultySession == Object("tok-a", "faculty", Undefined, Undefined)

AllStudents == Array([i \in 1..MaxStudents |-> Student(i)])

InitRace ==
    /\ location = At(PageOrigin, "attendance.html")
    /\ loaded = TRUE
    /\ storage = StoreSession(EmptyStorage, FacultySession)
    /\ pending = <<>>
    /\ dom = [InitialDom EXCEPT
                 !.markingList = RenderMarkingList(Return(AllStudents))]
    /\ alerts = <<>>
    /\ fetches = <<>>
    /\ ev = [NoEvent EXCEPT !.op = "rows"]
    /\ apiResp = Rejection("")
    /\ apiResult = NoOutcome
    /\ unitOutcome = NoOutcome
    /\ baseUrl = NoUrl
    /\ recorded = NoRecords

\* POST /attendance/mark reaches the backend, which records the mark
BackendRecords ==
    \E i \in 1..Len(pending) :
        /\ pending[i].site = "markAttendance"
        /\ ~pending[i].served
        /\ pending' = [pending EXCEPT ![i].served = TRUE]
        /\ recorded' = [recorded EXCEPT
                           ![pending[i].student] = pending[i].status]
        /\ UNCHANGED <<location, loaded, storage, dom, alerts, fetches, ev,
                       apiResp, apiResult, unitOutcome, baseUrl>>

\* the backend's acknowledgement of a handled request arrives
MarkAcknowledged ==
    \E i \in 1..Len(pending) :
        /\ pending[i].site = "markAttendance"
        /\ pending[i].served
        /\ \E outcome \in OutcomesOf(pending[i]) :
               /\ outcome.type = "return"
               /\ outcome.data \in AckPayloads
               /\ MarkSettles(i, outcome)

\* a request that did not reach the backend, or that it refused, fails
MarkFails ==
    \E i \in 1..Len(pending) :
        /\ pending[i].site = "markAttendance"
        /\ ~pending[i].served
        /\ \E outcome \in OutcomesOf(pending[i]) :
               /\ outcome.type = "throw"
               /\ MarkSettles(i, outcome)

RaceNext ==
    \/ \E student \in StudentIds, status \in Statuses :
           ClickMark(student, status)
    \/ BackendRecords
    \/ MarkAcknowledged
    \/ MarkFails

SpecRace == InitRace /\ [][RaceNext]_vars

(***************************************************************************)
(* SpecAll: the pages, and the loaders on their own, side by side.         *)
(***************************************************************************)
InitAll == Init \/ InitStats

\* a page is in use, no loader is on its own
Paged == unitOutcome = NoOutcome

AllNext ==
    \/ Paged /\ \E page \in Pages : Open(page)
    \/ Paged /\ DOMContentLoaded
    \/ Paged /\ \E role \in Roles : SubmitLogin(role)
    \/ Paged /\ LoginSettled
    \/ Paged /\ StatsStudentsSettled
    \/ Paged /\ StatsHistorySettled
    \/ Paged /\ MarkingStudentsSettled
    \/ Paged /\ \E student \in StudentIds, status \in Statuses :
                    ClickMark(student, status)
    \/ Paged /\ MarkSettled
    \/ Paged /\ MarkAllPresent
    \/ Paged /\ SaveSession
    \/ Paged /\ logout
    \/ loadStudentAttendance
    \/ loadDashboardStats

SpecAll == InitAll /\ [][AllNext]_vars

(***************************************************************************)
(* The login forms.                                                        *)
(***************************************************************************)
LoginSites == {"facultyLogin", "studentLogin"}

PortalOf(site) == IF site = "facultyLogin" THEN "faculty" ELSE "student"

LoginHasSettled == ev.op = "settled" /\ ev.site \in LoginSites

\* C1: when /auth/login returns a response whose role is the portal's, the
\* handler has stored the response's token under eduAttendToken and the
\* serialized response under eduAttendUser and has navigated to the portal's
\* dashboard; up to its await, and when the call fails or the role differs,
\* the handler has written nothing.
LoginPersistsAndNavigates ==
    /\ ev.op = "submit" => storage = ev.snap
    /\ LoginHasSettled =>
          IF ev.outcome = "return" /\ ev.data.role = PortalOf(ev.site)
          THEN /\ storage.eduAttendToken = ToStr(ev.data.token)
               /\ storage.eduAttendUser = JSONstringify(ev.data)
               /\ storage.eduAttendBackendUrl = ev.snap.eduAttendBackendUrl
               /\ ~loaded
               /\ location.pathname =
                      IF ev.site = "facultyLogin" THEN "/dashboard.html"
                      ELSE "/student-dashboard.html"
          ELSE storage = ev.snap

LoginPersistsAndNavigatesWitness ==
    /\ LoginHasSettled
    /\ ev.site = "studentLogin"
    /\ ev.outcome = "return"
    /\ ev.data.role = "student"
    /\ ev.data.token = "tok-b"
    /\ ev.snap.eduAttendToken = "tok-a"
    /\ storage.eduAttendToken = "tok-b"
    /\ location.pathname = "/student-dashboard.html"

\* C2: when /auth/login returns a response whose role is not the portal's,
\* eduAttendToken and eduAttendUser hold what they held before the submit,
\* the page is still the login page, one message is shown and the login
\* button is enabled again.
RoleMismatchWritesNothing ==
    (LoginHasSettled /\ ev.outcome = "return"
                     /\ ev.data.role # PortalOf(ev.site)) =>
        /\ storage.eduAttendToken = ev.snap.eduAttendToken
        /\ storage.eduAttendUser = ev.snap.eduAttendUser
        /\ loaded
        /\ location.pathname = ev.path
        /\ Len(alerts) = 1
        /\ alerts[1] # ""
        /\ ~dom.loginDisabled

RoleMismatchWritesNothingWitness ==
    /\ LoginHasSettled
    /\ ev.site = "facultyLogin"
    /\ ev.outcome = "return"
    /\ ev.data.role = "student"
    /\ ev.data.token = "tok-b"
    /\ storage.eduAttendToken = "tok-a"
    /\ location.pathname = "/faculty-login.html"
    /\ alerts = <<"This portal is for faculty only.">>

(***************************************************************************)
(* The guards at page load.                                                *)
(***************************************************************************)
SessionRole(store) ==
    IF store.eduAttendUser = Null THEN Null
    ELSE JSONparse(store.eduAttendUser).role

Started(site) == \E k \in 1..Len(fetches) : fetches[k].site = site

\* C3: at the load of a dashboard page, a stored session of the page's
\* portal leaves the page where it is and starts its data load
\* (loadDashboardStats, loadStudentAttendance); no session, or one of the
\* other portal, starts no data load and redirects to the login page of the
\* page's portal.
DashboardGuardsByPortal ==
    (ev.op = "DOMContentLoaded"
        /\ ev.path \in {"/dashboard.html", "/student-dashboard.html"}) =>
        LET portal == IF ev.path = "/dashboard.html" THEN "faculty"
                      ELSE "student"
            loader == IF portal = "faculty" THEN "loadDashboardStats"
                      ELSE "loadStudentAttendance"
        IN  IF SessionRole(ev.snap) = portal
            THEN /\ loaded
                 /\ location.pathname = ev.path
                 /\ Started(loader)
            ELSE /\ fetches = <<>>
                 /\ ~loaded
                 /\ location.pathname = "/" \o portal \o "-login.html"

\* C4: GET /users/students of loadStudentsForMarking and POST
\* /attendance/mark of markAttendance are sent only while the stored session
\* exists and has role faculty.
MarkingRequestsNeedFaculty ==
    \A k \in 1..Len(fetches) :
        fetches[k].site \in {"loadStudentsForMarking", "markAttendance"} =>
            SessionRole(fetches[k].snap) = "faculty"

(***************************************************************************)
(* logout.                                                                 *)
(***************************************************************************)
SessionKeys(store) == <<store.eduAttendToken, store.eduAttendUser>>

\* C5: a step of logout leaves eduAttendToken and eduAttendUser absent,
\* eduAttendBackendUrl as it was and the browser on its way to index.html;
\* and the two session keys change in no step but a login that passed its
\* role check and a logout, so (absent at first) they are present only from
\* such a login to the next logout.
LogoutStep ==
    /\ ev'.op = "logout" =>
          /\ storage'.eduAttendToken = Null
          /\ storage'.eduAttendUser = Null
          /\ storage'.eduAttendBackendUrl = storage.eduAttendBackendUrl
          /\ location'.pathname = "/index.html"
          /\ ~loaded'
    /\ SessionKeys(storage') # SessionKeys(storage) =>
          \/ ev'.op = "logout"
          \/ /\ ev'.op = "settled"
             /\ ev'.site \in LoginSites
             /\ ev'.outcome = "return"
             /\ ev'.data.role = PortalOf(ev'.site)
             /\ SessionKeys(storage) = SessionKeys(ev'.snap)

LogoutDestroysSessionOnly == [][LogoutStep]_vars

LogoutDestroysSessionOnlyWitness ==
    /\ ev.op = "logout"
    /\ ev.snap.eduAttendToken = "tok-a"
    /\ ev.snap.eduAttendUser # Null
    /\ ev.snap.eduAttendBackendUrl = OverrideUrl
    /\ storage = [EmptyStorage EXCEPT !.eduAttendBackendUrl = OverrideUrl]
    /\ location.pathname = "/index.html"

(***************************************************************************)
(* Failures of apiRequest at its call sites.                               *)
(***************************************************************************)
HasFailed == ev.op = "settled" /\ ev.outcome = "throw"

AlertingSites == LoginSites \cup {"markAttendance"}

\* C6, as the code has it: a failed call of a login form or of markAttendance
\* shows exactly one alert, with a message; a failed call of
\* loadDashboardStats, loadStudentsForMarking or loadStudentAttendance shows
\* no alert (the marking list shows its error inline, the other two only
\* log).
FailuresAlertAtLoginAndMarking ==
    HasFailed =>
        IF ev.site \in AlertingSites
        THEN Len(alerts) = 1 /\ alerts[1] # ""
        ELSE /\ alerts = <<>>
             /\ ev.site = "loadStudentsForMarking" =>
                    dom.markingList.state = "error"

FailuresAlertAtLoginAndMarkingWitness ==
    /\ HasFailed
    /\ ev.site = "markAttendance"
    /\ alerts = <<"Failed to mark attendance: Invalid credentials">>

\* C6, as stated: every failed call, at every call site, shows exactly one
\* alert.
EveryFailureAlertsOnce == HasFailed => Len(alerts) = 1

(***************************************************************************)
(* apiRequest on bodies that are HTML.                                     *)
(***************************************************************************)
ServerHeaders == {Null, "nginx"}

NotReachedKind ==
    {MsgNotReached(h) : h \in ServerHeaders}
    \cup {MsgIntercepted(h) : h \in ServerHeaders}

ReachedKind == {MsgAlive, MsgHtmlFromBackend(RequestUrl(API_URL, ApiEndpoint))}

ResultMessage ==
    IF apiResult.type = "throw" THEN apiResult.message
    ELSE apiResult.data.message

\* C7: for a response whose body starts with <!DOCTYPE html> or <html,
\* whatever its content type, the message apiRequest produces is of the
\* "not reached" kind exactly when X-Backend-Server is missing and of the
\* "reached, but an HTML page" kind exactly when it is present.
HtmlClassifiedByHeaderAlone ==
    (ev.op = "apiSettled" /\ apiResp.rejected = NotRejected
                          /\ IsHtmlShaped(apiResp.text)) =>
        /\ ResultMessage \in NotReachedKind <=> apiResp.backendHeader = Null
        /\ ResultMessage \in ReachedKind <=> apiResp.backendHeader # Null

(***************************************************************************)
(* No retry, no persisted failure state.                                   *)
(***************************************************************************)
\* C8: each call of apiRequest a handler makes issues exactly one fetch, so
\* a step issues as many fetches as it calls apiRequest and a settling call
\* is not fetched again; and when a call has failed the three storage keys
\* are what they were when it was made.
OneFetchAndNoFailureState ==
    /\ Len(fetches) = ev.calls
    /\ \A k \in 1..Len(fetches) : fetches[k].snap = storage
    /\ HasFailed =>
          /\ storage = ev.snap
          /\ fetches = <<>>

OneFetchAndNoFailureStateWitness ==
    /\ HasFailed
    /\ ev.site = "markAttendance"
    /\ ev.snap.eduAttendToken = "tok-a"
    /\ ev.snap.eduAttendBackendUrl = OverrideUrl
    /\ storage = ev.snap
    /\ Len(pending) = 1

(***************************************************************************)
(* The student's figures and the two lists of records.                     *)
(***************************************************************************)
HistoryLoaded(site) ==
    /\ ev.op = "settled"
    /\ ev.site = site
    /\ ev.outcome = "return"
    /\ ev.data.type = "array"

\* round(presentCount / totalClasses * 100) in exact arithmetic, halves up
RoundHalfUp(presentCount, totalClasses) ==
    (200 * presentCount + totalClasses) \div (2 * totalClasses)

\* C9: for every history loadStudentAttendance shows total = the number of
\* records, present = the number with status Present, missed = total -
\* present, and percentage = present / total * 100 rounded to the nearest
\* integer, halves up, or 0 when total = 0; the percentage is in 0..100, and
\* is 67 for 10 Present and 5 Absent.
PercentageRoundsHalfUp ==
    HistoryLoaded("loadStudentAttendance") =>
        LET items   == ev.data.items
            view    == dom.studentView
            present == Cardinality({k \in 1..Len(items) :
                                       items[k].status = "Present"})
        IN  /\ view.total = Len(items)
            /\ view.present = present
            /\ view.missed = Len(items) - present
            /\ view.percentage \in 0..100
            /\ view.percentage =
                   IF Len(items) = 0 THEN 0
                   ELSE RoundHalfUp(present, Len(items))

IsPrefix(shown, items, n) ==
    /\ Len(shown) = Min(n, Len(items))
    /\ \A k \in 1..Len(shown) : shown[k] = items[k]

\* C10: when a history load returns an empty history the faculty table body
\* is the one "No recent attendance recorded." row and the student log is
\* the "No attendance records found." paragraph, with no record in either;
\* when it returns n > 0 records there is no placeholder and the table shows
\* the first min(n, 5) and the log the first min(n, 10), in their order.
PlaceholderOrFirstRecords ==
    /\ HistoryLoaded("loadDashboardStats") =>
          IF ev.data.items = <<>>
          THEN dom.tableBody = [state |-> "placeholder", rows |-> <<>>]
          ELSE /\ dom.tableBody.state = "rows"
               /\ IsPrefix(dom.tableBody.rows, ev.data.items, 5)
    /\ HistoryLoaded("loadStudentAttendance") =>
          IF ev.data.items = <<>>
          THEN dom.studentView.log = [state |-> "placeholder", items |-> <<>>]
          ELSE /\ dom.studentView.log.state = "items"
               /\ IsPrefix(dom.studentView.log.items, ev.data.items, 10)

PlaceholderOrFirstRecordsWitness ==
    /\ HistoryLoaded("loadStudentAttendance")
    /\ Len(ev.data.items) = 12
    /\ Len(dom.studentView.log.items) = 10
    /\ dom.studentView.log.items[10] = ev.data.items[10]
    /\ ev.data.items[10].status = "Absent"

(***************************************************************************)
(* The API base.                                                           *)
(***************************************************************************)
IsLocalHost(hostname) ==
    \/ hostname \in {"localhost", "127.0.0.1"}
    \/ \E prefix \in {"192.168.", "10.", "172."} : StartsWith(hostname, prefix)

\* C11: getBaseUrl returns a non-empty stored eduAttendBackendUrl as it is;
\* otherwise "/api" on port 5000, whatever the hostname and protocol;
\* otherwise "http://localhost:5000/api" on a local hostname (localhost,
\* 127.0.0.1, prefix 192.168., 10. or 172.) or under file:; otherwise "/api".
BaseUrlByPrecedence ==
    baseUrl # NoUrl =>
        LET override == storage.eduAttendBackendUrl
        IN  baseUrl =
                CASE override \notin {Null, ""} -> override
                  [] override \in {Null, ""} /\ location.port = "5000" -> "/api"
                  [] override \in {Null, ""} /\ location.port # "5000"
                        /\ (IsLocalHost(location.hostname)
                                \/ location.protocol = "file:")
                     -> "http://localhost:5000/api"
                  [] OTHER -> "/api"

BaseUrlByPrecedenceWitness ==
    /\ baseUrl = "/api"
    /\ storage.eduAttendBackendUrl = ""
    /\ location.port = "5000"
    /\ location.hostname = "192.168.1.20"
    /\ location.protocol = "file:"

(***************************************************************************)
(* The Authorization header.                                               *)
(***************************************************************************)
\* C12, as the code has it: a request carries "Authorization: Bearer <token>"
\* exactly when eduAttendToken is stored and not empty at the moment of the
\* call, with the token stored at that moment ...
BearerOfStoredToken ==
    \A k \in 1..Len(fetches) :
        /\ fetches[k].snap = storage
        /\ fetches[k].authorization =
               IF storage.eduAttendToken \in {Null, ""} THEN Null
               ELSE "Bearer " \o storage.eduAttendToken

\* ... and the stored token is set by no step but a login that passed its
\* role check, to what setItem makes of that login's token, and removed by
\* no step but a logout: so no request from a logout to the next such login
\* carries the header, and every request from such a login to the next logout
\* carries that login's token, unless that token is empty.
TokenStep ==
    storage'.eduAttendToken # storage.eduAttendToken =>
        \/ ev'.op = "logout" /\ storage'.eduAttendToken = Null
        \/ /\ ev'.op = "settled"
           /\ ev'.site \in LoginSites
           /\ ev'.outcome = "return"
           /\ ev'.data.role = PortalOf(ev'.site)
           /\ storage'.eduAttendToken = ToStr(ev'.data.token)

BearerIffNonEmptyToken == []BearerOfStoredToken /\ [][TokenStep]_vars

BearerIffNonEmptyTokenWitness ==
    /\ ev.op = "click"
    /\ Len(fetches) = 1
    /\ fetches[1].site = "markAttendance"
    /\ fetches[1].authorization = "Bearer tok-b"
    /\ storage.eduAttendToken = "tok-b"

\* C12, as stated: a request carries the header if and only if eduAttendToken
\* is present in storage at the moment of the call, with the token stored at
\* that moment.
BearerIffTokenPresent ==
    \A k \in 1..Len(fetches) :
        /\ fetches[k].authorization # Null <=>
               fetches[k].snap.eduAttendToken # Null
        /\ fetches[k].authorization # Null =>
               fetches[k].authorization =
                   "Bearer " \o fetches[k].snap.eduAttendToken

(***************************************************************************)
(* HTML bodies as results.                                                 *)
(***************************************************************************)
StartsAsHtml(text) ==
    StartsWith(text, "<!DOCTYPE html>") \/ StartsWith(text, "<html")

\* C13: whenever the body of the response starts with <!DOCTYPE html> or
\* <html, apiRequest throws, whatever the status and the content type; and
\* it returns data only when the response is OK and the body is no HTML
\* page.
HtmlNeverReturned ==
    (ev.op = "apiSettled" /\ apiResp.rejected = NotRejected) =>
        /\ StartsAsHtml(apiResp.text) => apiResult.type = "throw"
        /\ apiResult.type = "return" =>
               /\ apiResp.status \in 200..299
               /\ ~StartsAsHtml(apiResp.text)

(***************************************************************************)
(* The active buttons of the marking page.                                 *)
(***************************************************************************)
AtMostOneActive == \A s \in StudentIds : Cardinality(dom.active[s]) <= 1

\* the mark request that settles in this step
SettlingMark(i) ==
    /\ i \in 1..Len(pending)
    /\ pending[i].site = "markAttendance"
    /\ pending' = Without(pending, i)
    /\ ev'.op = "settled"
    /\ ev'.site = "markAttendance"

ActiveStep ==
    /\ \A s \in StudentIds, st \in Statuses :
          (st \in dom'.active[s] /\ st \notin dom.active[s]) =>
              \E i \in 1..Len(pending) :
                  /\ SettlingMark(i)
                  /\ ev'.outcome = "return"
                  /\ pending[i].student = s
                  /\ pending[i].status = st
                  /\ pending[i].endpoint = "/attendance/mark"
                  /\ pending[i].method = "POST"
    /\ (\E i \in 1..Len(pending) : SettlingMark(i) /\ ev'.outcome = "throw") =>
          /\ dom'.active = dom.active
          /\ Len(alerts') = 1
          /\ alerts'[1] # ""

\* C14: in every state each student's row has at most one active button; a
\* button becomes active only in the step in which the POST /attendance/mark
\* for that student and that status returns; and the step in which a mark
\* request fails leaves every row's active button as it was and shows one
\* alert.
OneActiveButtonPerRow == []AtMostOneActive /\ [][ActiveStep]_vars

OneActiveButtonPerRowWitness ==
    /\ ev.op = "settled"
    /\ ev.site = "markAttendance"
    /\ ev.outcome = "throw"
    /\ dom.active["s1"] = {"Late"}
    /\ dom.active["s2"] = {"Present"}
    /\ Len(alerts) = 1

(***************************************************************************)
(* Marks of one student in flight together.                                *)
(***************************************************************************)
\* C15: once every mark request has completed, the active button of a
\* student's row shows the status the backend recorded last for that
\* student, in whatever order the responses arrived.
ButtonShowsLastRecorded ==
    pending = <<>> =>
        \A s \in StudentIds :
            recorded[s] # Null => dom.active[s] = {recorded[s]}

(***************************************************************************)
(* Mark all present.                                                       *)
(***************************************************************************)
\* C16: when the "All students marked as present!" alert is shown, the
\* Present button of every listed student is active, a Present mark having
\* been acknowledged for each, and no mark request the click triggered is in
\* flight.
MarkAllAlertsAfterAcknowledgement ==
    (ev.op = "markAll" /\ alerts = <<"All students marked as present!">>) =>
        /\ \A s \in RowsShown : dom.active[s] = {"Present"}
        /\ \A k \in 1..Len(fetches) :
              \A i \in 1..Len(pending) : pending[i] # fetches[k]

=============================================================================
